---- MODULE Spec2Model ----
(***************************************************************************)
(* openpile: axial capacity engine (src/src/openpile/calculate.py) over    *)
(* piles and soil profiles built by src/src/openpile/construct.py, and the *)
(* construction of a Model (pile, soil profile, soil springs) by           *)
(* construct.py.                                                           *)
(*                                                                         *)
(* Units.  Lengths are in decimetres (0.1 m), forces in newtons, stresses  *)
(* in N/dm2 and unit weights in N/dm3, so that a unit weight has the same  *)
(* number as in kN/m3 (water: 10), the mesh coarseness 0.1 m of            *)
(* calculate.py is 1 and the ICP-05 limit 1.4 m is 14.  Every area,        *)
(* surface and volume is expressed in units of pi/4 (a circle of diameter  *)
(* d has footprint d*d, a perimeter d*pi is 4*d): all terms of the         *)
(* capacity formulae carry the same factor, so sums and comparisons are    *)
(* those of the code.                                                      *)
(***************************************************************************)
EXTENDS Integers, Sequences, FiniteSets, TLC

VARIABLES pile, soil, call, ret, model

vars == <<pile, soil, call, ret, model>>

-----------------------------------------------------------------------------
(* Bounds of the model *)

\* largest number of layers of a soil profile
MaxLayers == 2
\* largest number of sections of a pile
MaxSections == 2

\* thickness of a layer, unit weight of the pile material
LayerThicknesses == {2}
MaterialUnitWeights == {78}
\* unit weights of the layers of a profile from the ground line down: the two
\* weights alternate, starting with either
LayerWeights == <<12, 24>>
WeightOrders == {0, 1}
\* (diameter, wall thickness) of the sections of a pile from the head down: the
\* shapes follow one another in this order, starting with any of them;
\* thickness = diameter/2 is a solid section
SectionShapes == <<<<12, 1>>, <<14, 7>>, <<16, 2>>>>
\* length of a section
SectionLengths == {2}
\* pile head above the ground line, water line above the ground line
StickUps == {0, 1}
WaterLines == {-1, 1}
\* top elevation of the soil profile
GroundLevels == {0}

-----------------------------------------------------------------------------
(* Program constants *)

\* unit weight of water
uw_water == 10
\* coarseness handed to get_all_properties by every function of calculate.py
Coarseness == 1
\* ICP-05 limit on the footprint-equivalent tip diameter (1.4 m)
PlugDiameterLimit == 14

-----------------------------------------------------------------------------
(* Helpers *)

RECURSIVE SumSeq(_)
SumSeq(s) == IF s = <<>> THEN 0 ELSE Head(s) + SumSeq(Tail(s))

Abs(x) == IF x < 0 THEN -x ELSE x

\* floor of the square root: math.sqrt compared against a bound
ISqrt(x) == CHOOSE r \in 0..x : r * r <= x /\ (r + 1) * (r + 1) > x

\* all orderings of the elements of a sequence
RECURSIVE Perms(_)
Perms(s) ==
    IF Len(s) <= 1 THEN {s}
    ELSE UNION { { <<s[i]>> \o p :
                     p \in Perms([j \in 1..(Len(s) - 1) |-> IF j < i THEN s[j] ELSE s[j + 1]]) } :
                 i \in 1..Len(s) }

-----------------------------------------------------------------------------
(* CircularPileSection *)

get_top_elevation(sec) == sec.top_elevation
get_bottom_elevation(sec) == sec.bottom_elevation
get_length(sec) == sec.top_elevation - sec.bottom_elevation
get_area(sec) ==
    sec.diameter * sec.diameter
        - (sec.diameter - 2 * sec.thickness) * (sec.diameter - 2 * sec.thickness)
get_footprint(sec) == sec.diameter * sec.diameter
get_width(sec) == sec.diameter

(* Pile *)

Pile_top_elevation(p) == get_top_elevation(p.pile_sections[1])
Pile_bottom_elevation(p) == get_bottom_elevation(p.pile_sections[Len(p.pile_sections)])
tip_area(p) == get_area(p.pile_sections[Len(p.pile_sections)])
\* a slip in Pile.tip_footprint: the footprint of the head section
tip_footprint_of_head(p) == get_footprint(p.pile_sections[1])
tip_footprint(p) == get_footprint(p.pile_sections[Len(p.pile_sections)])

\* CircularPileSection(top_elevation, bottom_elevation, diameter, thickness):
\* the section, or the ValueError of check_elevations
CircularPileSection(top_elevation, bottom_elevation, diameter, thickness) ==
    [exc |-> IF bottom_elevation >= top_elevation THEN "ValueError" ELSE "",
     self |-> [top_elevation |-> top_elevation, bottom_elevation |-> bottom_elevation,
               diameter |-> diameter, thickness |-> thickness]]

\* sorted(secs, key=lambda x: -x.get_top_elevation()): a stable sort, sections
\* of equal top keep the order they were given in
RECURSIVE insert_section(_, _)
insert_section(sec, secs) ==
    IF secs = <<>> THEN <<sec>>
    ELSE IF get_top_elevation(Head(secs)) <= get_top_elevation(sec) THEN <<sec>> \o secs
    ELSE <<Head(secs)>> \o insert_section(sec, Tail(secs))

RECURSIVE sorted_sections(_)
sorted_sections(secs) ==
    IF secs = <<>> THEN <<>>
    ELSE insert_section(Head(secs), sorted_sections(Tail(secs)))

\* a slip in the validator of Pile: sections that do not connect are let through
pile_sections_must_not_overlap_unchecked(self) ==
    [exc |-> "", self |-> [self EXCEPT !.pile_sections = sorted_sections(@)]]

\* the validator of Pile: the sections sorted, or the ValueError "Pile sections
\* are not consistent"
pile_sections_must_not_overlap(self) ==
    LET sorted == sorted_sections(self.pile_sections)
    IN  [exc |-> IF \E i \in 2..Len(sorted) :
                       sorted[i].top_elevation # sorted[i - 1].bottom_elevation
                 THEN "ValueError" ELSE "",
         self |-> [self EXCEPT !.pile_sections = sorted]]

\* no Pile has been constructed
NoPile == [unitweight |-> 0, pile_sections |-> <<>>]

\* Pile(material=..., pile_sections=[CircularPileSection(...), ...]) for the
\* arguments args: the sections are constructed first, then the Pile
Pile(args) ==
    LET secs == [k \in DOMAIN args.pile_sections |->
                    CircularPileSection(args.pile_sections[k].top_elevation,
                                        args.pile_sections[k].bottom_elevation,
                                        args.pile_sections[k].diameter,
                                        args.pile_sections[k].thickness)]
    IN  IF \E k \in DOMAIN secs : secs[k].exc # ""
        THEN [exc |-> "ValueError", self |-> NoPile]
        ELSE pile_sections_must_not_overlap(
                 [unitweight |-> args.unitweight,
                  pile_sections |-> [k \in DOMAIN secs |-> secs[k].self]])

\* a slip in Pile.data: the bottom of a section listed before its top
Pile_data_bottom_first(p) ==
    [r \in 1..(2 * Len(p.pile_sections)) |->
        LET x == p.pile_sections[(r + 1) \div 2]
        IN  [Elevation |-> IF r % 2 = 1 THEN get_bottom_elevation(x)
                           ELSE get_top_elevation(x),
             Diameter |-> get_width(x),
             Wall_thickness |-> x.thickness,
             Area |-> get_area(x)]]

\* Pile.data: two rows per section, its top and its bottom
Pile_data(p) ==
    [r \in 1..(2 * Len(p.pile_sections)) |->
        LET x == p.pile_sections[(r + 1) \div 2]
        IN  [Elevation |-> IF r % 2 = 1 THEN get_top_elevation(x)
                           ELSE get_bottom_elevation(x),
             Diameter |-> get_width(x),
             Wall_thickness |-> x.thickness,
             Area |-> get_area(x)]]

(* SoilProfile *)

Soil_bottom_elevation(s) ==
    s.top_elevation - SumSeq([i \in 1..Len(s.layers) |-> Abs(s.layers[i].top - s.layers[i].bottom)])

NoSoil == [present |-> FALSE, top_elevation |-> 0, water_line |-> 0, layers |-> <<>>]

\* Layer(top, bottom, weight): the layer, or the error of Field(gt=10.0) and of
\* check_elevations
Layer(top, bottom, weight) ==
    [exc |-> IF ~(weight > uw_water) THEN "ValidationError"
             ELSE IF ~(top > bottom) THEN "ValueError" ELSE "",
     self |-> [top |-> top, bottom |-> bottom, weight |-> weight]]

\* abs_tol=0.001 of check_layers_elevations, where elevations are counted in
\* quarter millimetres
abs_tol == 4

\* m.isclose(a, b, abs_tol=0.001); the relative tolerance 1e-09 is below abs_tol
\* for every elevation under 1000 km
isclose(a, b) == Abs(a - b) <= abs_tol

\* the layers in the order of top_elevations[idx_sort][::-1], idx_sort =
\* np.argsort(top_elevations): by descending top, layers of equal top in the
\* reverse of the order they were given in
RECURSIVE insert_layer(_, _)
insert_layer(layer, layers) ==
    IF layers = <<>> THEN <<layer>>
    ELSE IF Head(layers).top < layer.top THEN <<layer>> \o layers
    ELSE <<Head(layers)>> \o insert_layer(layer, Tail(layers))

RECURSIVE sorted_layers(_)
sorted_layers(layers) ==
    IF layers = <<>> THEN <<>>
    ELSE insert_layer(Head(layers), sorted_layers(Tail(layers)))

\* the validator of SoilProfile: the profile with its layers as given, or
\* IndexError (top_sorted[0] of no layer), or ValueError
check_layers_elevations(self) ==
    LET sorted == sorted_layers(self.layers)
    IN  [exc |-> IF sorted = <<>> THEN "IndexError"
                 ELSE IF sorted[1].top # self.top_elevation THEN "ValueError"
                 ELSE IF \E i \in 1..(Len(sorted) - 1) :
                            ~isclose(sorted[i + 1].top, sorted[i].bottom)
                 THEN "ValueError" ELSE "",
         self |-> self]

\* SoilProfile(top_elevation=..., water_line=..., layers=[Layer(...), ...]) for
\* the arguments args: the layers are constructed first, then the profile
SoilProfile(args) ==
    LET layers == [k \in DOMAIN args.layers |->
                      Layer(args.layers[k].top, args.layers[k].bottom,
                            args.layers[k].weight)]
    IN  IF \E k \in DOMAIN layers : layers[k].exc # ""
        THEN [exc |-> layers[CHOOSE k \in DOMAIN layers :
                                 /\ layers[k].exc # ""
                                 /\ \A j \in 1..(k - 1) : layers[j].exc = ""].exc,
              self |-> NoSoil]
        ELSE check_layers_elevations(
                 [present |-> TRUE, top_elevation |-> args.top_elevation,
                  water_line |-> args.water_line,
                  layers |-> [k \in DOMAIN layers |-> layers[k].self]])

-----------------------------------------------------------------------------
(* Axial constitutive models of openpile.soilmodels: a capability with     *)
(* unit_tip_resistance, unit_shaft_friction, unit_shaft_signature,         *)
(* Q_multiplier and t_multiplier.  "None" is a layer without axial model.  *)

AxialModelNames == {"A1", "A2"}

AxialModel(name) ==
    IF name = "A1"
    THEN [Nq |-> 8, beta |-> 1, Q_multiplier |-> 1, t_multiplier |-> 1, sig_out |-> 1, sig_in |-> 1]
    ELSE [Nq |-> 1, beta |-> 5, Q_multiplier |-> 2, t_multiplier |-> 3, sig_out |-> 1, sig_in |-> 2]

unit_tip_resistance(name, sig, depth_from_top_of_layer, layer_height) ==
    AxialModel(name).Nq * sig + depth_from_top_of_layer + layer_height

\* depth2 is twice the depth (the mean depth of an element is a half-integer)
unit_shaft_friction(name, sig, depth2, layer_height) ==
    AxialModel(name).beta * sig + depth2 + layer_height

unit_shaft_signature(name, So, Si) ==
    [out |-> AxialModel(name).sig_out, in |-> AxialModel(name).sig_in]

-----------------------------------------------------------------------------
(* Mesh/property mapper get_all_properties(pile, soil, x2mesh, coarseness) *)
(* of openpile.core._model_build: one row per element, from the pile head  *)
(* to the pile tip, nodes at every section and layer boundary, no element  *)
(* longer than the coarseness.                                             *)

ElementCount(p) == (Pile_top_elevation(p) - Pile_bottom_elevation(p)) \div Coarseness

ElementTop(p, i) == Pile_top_elevation(p) - (i - 1) * Coarseness
ElementBottom(p, i) == Pile_top_elevation(p) - i * Coarseness

\* the section an element lies in
SectionOf(p, i) ==
    p.pile_sections[CHOOSE k \in 1..Len(p.pile_sections) :
        /\ p.pile_sections[k].top_elevation >= ElementTop(p, i)
        /\ p.pile_sections[k].bottom_elevation <= ElementBottom(p, i)]

element_row(p, i) ==
    [x_top |-> ElementTop(p, i),
     x_bottom |-> ElementBottom(p, i),
     Diameter |-> get_width(SectionOf(p, i)),
     Wall_thickness |-> SectionOf(p, i).thickness,
     Area |-> get_area(SectionOf(p, i))]

\* the structural property table, rows i..ElementCount(p)
RECURSIVE element_rows(_, _)
element_rows(p, i) ==
    IF i > ElementCount(p) THEN <<>> ELSE <<element_row(p, i)>> \o element_rows(p, i + 1)

element_properties(p) == element_rows(p, 1)

\* effective unit weight of the soil of the slice [x - Coarseness, x]
SliceWeight(s, x) ==
    LET inside == { k \in 1..Len(s.layers) :
                      s.layers[k].top >= x /\ s.layers[k].bottom <= x - Coarseness }
        w == IF inside = {} THEN 0 ELSE s.layers[CHOOSE k \in inside : TRUE].weight
    IN  IF inside = {} THEN 0
        ELSE IF x <= s.water_line THEN w - uw_water ELSE w

\* vertical effective stress at elevation x (0 at and above the ground line)
RECURSIVE sigma_v(_, _)
sigma_v(s, x) ==
    IF x >= s.top_elevation THEN 0
    ELSE sigma_v(s, x + Coarseness) + SliceWeight(s, x + Coarseness) * Coarseness

soil_row(p, s, i) ==
    [x_top |-> ElementTop(p, i),
     x_bottom |-> ElementBottom(p, i),
     xg_top |-> ElementTop(p, i) - s.top_elevation,
     xg_bottom |-> ElementBottom(p, i) - s.top_elevation,
     sigma_v_top |-> sigma_v(s, ElementTop(p, i)),
     sigma_v_bottom |-> sigma_v(s, ElementBottom(p, i))]

\* the soil property table, rows i..ElementCount(p)
RECURSIVE soil_rows(_, _, _)
soil_rows(p, s, i) ==
    IF i > ElementCount(p) THEN <<>> ELSE <<soil_row(p, s, i)>> \o soil_rows(p, s, i + 1)

soil_properties(p, s) == soil_rows(p, s, 1)

-----------------------------------------------------------------------------
(* Outcome of a call: a returned number, a returned boolean, or a raised   *)
(* exception; type is the type of the returned value.                      *)

Return(v) == [exc |-> "", type |-> "float", num |-> v, bool |-> FALSE]
ReturnBool(b) == [exc |-> "", type |-> "bool", num |-> 0, bool |-> b]
Raise(e) == [exc |-> e, type |-> "", num |-> 0, bool |-> FALSE]
ReturnObject(t) == [exc |-> "", type |-> t, num |-> 0, bool |-> FALSE]
Raised(r) == r.exc # ""

-----------------------------------------------------------------------------
(* calculate.py *)

\* the rows of the soil property table that lie within a layer
elements_for_layer(sp, layer) ==
    { i \in DOMAIN sp : sp[i].x_top <= layer.top /\ sp[i].x_bottom >= layer.bottom }

\* per element, the outer surface So and the inner surface Si
pile_element_surface(p, s) ==
    LET ep == element_properties(p)
    IN  [i \in DOMAIN ep |->
            LET perimeter_outside == 4 * ep[i].Diameter
                perimeter_inside == 4 * (ep[i].Diameter - 2 * ep[i].Wall_thickness)
                L == ep[i].x_top - ep[i].x_bottom
            IN  [So |-> perimeter_outside * L, Si |-> perimeter_inside * L]] \o <<>>

\* per element, the inside volume
pile_inside_volume(p, s) ==
    LET ep == element_properties(p)
    IN  [i \in DOMAIN ep |->
            LET area_inside == (ep[i].Diameter - 2 * ep[i].Wall_thickness)
                                 * (ep[i].Diameter - 2 * ep[i].Wall_thickness)
                L == ep[i].x_top - ep[i].x_bottom
            IN  area_inside * L] \o <<>>

\* a slip in effective_pile_weight: an element whose bottom is at the water line
\* counts as submerged
effective_pile_weight_nonstrict(p, s) ==
    LET ep == element_properties(p)
        submerged_element(i) == ep[i].x_bottom <= s.water_line
        V(i) == (ep[i].x_top - ep[i].x_bottom) * ep[i].Area
        W == [i \in DOMAIN ep |->
                IF submerged_element(i) THEN V(i) * (p.unitweight - 10)
                ELSE V(i) * p.unitweight]
    IN  IF s.present THEN Return(SumSeq(W))
        ELSE Raise("Exception: Model must be linked to a soil profile")

\* a slip in effective_pile_weight: without a soil profile the dry weight is
\* returned
effective_pile_weight_without_soil(p, s) ==
    LET ep == element_properties(p)
        submerged_element(i) == s.present /\ ep[i].x_bottom < s.water_line
        V(i) == (ep[i].x_top - ep[i].x_bottom) * ep[i].Area
        W == [i \in DOMAIN ep |->
                IF submerged_element(i) THEN V(i) * (p.unitweight - 10)
                ELSE V(i) * p.unitweight]
    IN  Return(SumSeq(W))

effective_pile_weight(p, s) ==
    LET ep == element_properties(p)
        submerged_element(i) == ep[i].x_bottom < s.water_line
        V(i) == (ep[i].x_top - ep[i].x_bottom) * ep[i].Area
        W == [i \in DOMAIN ep |->
                IF submerged_element(i) THEN V(i) * (p.unitweight - 10)
                ELSE V(i) * p.unitweight]
    IN  IF s.present THEN Return(SumSeq(W))
        ELSE Raise("Exception: Model must be linked to a soil profile")

\* the loop of unit_end_bearing over soil.layers[k..]; q is the local q so far
RECURSIVE unit_end_bearing_loop(_, _, _, _, _)
unit_end_bearing_loop(p, s, sp, k, q) ==
    IF k > Len(s.layers) THEN q
    ELSE
        LET layer == s.layers[k]
            sig_v_tip == sp[Len(sp)].sigma_v_bottom
            q1 == IF layer.axial_model = "None" THEN [bound |-> TRUE, val |-> 0]
                  ELSE IF /\ layer.top >= Pile_bottom_elevation(p)
                          /\ layer.bottom <= Pile_bottom_elevation(p)
                  THEN [bound |-> TRUE,
                        val |-> unit_tip_resistance(layer.axial_model, sig_v_tip,
                                    s.top_elevation - Soil_bottom_elevation(s),
                                    layer.top - layer.bottom)
                                  * AxialModel(layer.axial_model).Q_multiplier]
                  ELSE q
        IN  unit_end_bearing_loop(p, s, sp, k + 1, q1)

unit_end_bearing(p, s) ==
    IF ~s.present THEN Raise("AttributeError")
    ELSE LET q == unit_end_bearing_loop(p, s, soil_properties(p, s), 1,
                                        [bound |-> FALSE, val |-> 0])
         IN  IF q.bound THEN Return(q.val) ELSE Raise("UnboundLocalError")

\* a slip in entrapped_soil_weight: the parentheses around the buoyant weight
\* are missing
RECURSIVE entrapped_soil_weight_loop_unbracketed(_, _, _, _, _)
entrapped_soil_weight_loop_unbracketed(s, sp, Vi, k, sw) ==
    IF k > Len(s.layers) THEN sw
    ELSE
        LET layer == s.layers[k]
            midpoint_le_water(i) == sp[i].x_top + sp[i].x_bottom <= 2 * s.water_line
            sw1 == [i \in DOMAIN sw |->
                      IF i \in elements_for_layer(sp, layer)
                      THEN IF midpoint_le_water(i)
                           THEN layer.weight * Vi[i]
                           ELSE layer.weight - uw_water * Vi[i]
                      ELSE sw[i]] \o <<>>
        IN  entrapped_soil_weight_loop_unbracketed(s, sp, Vi, k + 1, sw1)

\* the loop of entrapped_soil_weight over soil.layers[k..]; sw is element_sw so far
RECURSIVE entrapped_soil_weight_loop(_, _, _, _, _)
entrapped_soil_weight_loop(s, sp, Vi, k, sw) ==
    IF k > Len(s.layers) THEN sw
    ELSE
        LET layer == s.layers[k]
            \* elevation[i] <= soil.water_line, elevation the element mid-point
            midpoint_le_water(i) == sp[i].x_top + sp[i].x_bottom <= 2 * s.water_line
            sw1 == [i \in DOMAIN sw |->
                      IF i \in elements_for_layer(sp, layer)
                      THEN IF midpoint_le_water(i)
                           THEN layer.weight * Vi[i]
                           ELSE (layer.weight - uw_water) * Vi[i]
                      ELSE sw[i]] \o <<>>
        IN  entrapped_soil_weight_loop(s, sp, Vi, k + 1, sw1)

entrapped_soil_weight(p, s) ==
    IF ~s.present THEN Raise("TypeError")
    ELSE Return(SumSeq(entrapped_soil_weight_loop(s, soil_properties(p, s),
                          pile_inside_volume(p, s), 1,
                          [i \in 1..ElementCount(p) |-> 0])))

\* the loop of shaft_resistance over soil.layers[k..]; fs is element_fs so far,
\* fs[i] the pair (outer, inner) of element i
RECURSIVE shaft_resistance_loop(_, _, _, _, _)
shaft_resistance_loop(s, sp, S, k, fs) ==
    IF k > Len(s.layers) THEN fs
    ELSE
        LET layer == s.layers[k]
            \* unit weights are even, so the mean of two stresses is an integer
            sigveff(i) == (sp[i].sigma_v_top + sp[i].sigma_v_bottom) \div 2
            \* twice the mean of |xg_top| and |xg_bottom|
            depth_from_ground2(i) == Abs(sp[i].xg_top) + Abs(sp[i].xg_bottom)
            friction(i) == unit_shaft_friction(layer.axial_model, sigveff(i),
                               depth_from_ground2(i), layer.top - layer.bottom)
            sgn(i) == unit_shaft_signature(layer.axial_model, S[i].So, S[i].Si)
            fs1 == [i \in DOMAIN fs |->
                      IF i \in elements_for_layer(sp, layer)
                      THEN [out |-> friction(i) * sgn(i).out * S[i].So
                                      * AxialModel(layer.axial_model).t_multiplier,
                            in |-> friction(i) * sgn(i).in * S[i].Si
                                      * AxialModel(layer.axial_model).t_multiplier]
                      ELSE fs[i]] \o <<>>
        IN  shaft_resistance_loop(s, sp, S, k + 1,
                IF layer.axial_model = "None" THEN fs ELSE fs1)

\* a slip in shaft_resistance: the inner row is never zeroed
shaft_resistance_inner_kept(p, s, outer_shaft, inner_shaft) ==
    IF ~s.present THEN Raise("TypeError")
    ELSE LET fs == shaft_resistance_loop(s, soil_properties(p, s),
                      pile_element_surface(p, s), 1,
                      [i \in 1..ElementCount(p) |-> [out |-> 0, in |-> 0]])
             element_fs == [i \in DOMAIN fs |->
                              (IF outer_shaft THEN fs[i].out ELSE 0) + fs[i].in]
         IN  Return(SumSeq(element_fs))

shaft_resistance(p, s, outer_shaft, inner_shaft) ==
    IF ~s.present THEN Raise("TypeError")
    ELSE LET fs == shaft_resistance_loop(s, soil_properties(p, s),
                      pile_element_surface(p, s), 1,
                      [i \in 1..ElementCount(p) |-> [out |-> 0, in |-> 0]])
             element_fs == [i \in DOMAIN fs |->
                              (IF outer_shaft THEN fs[i].out ELSE 0)
                                + (IF inner_shaft THEN fs[i].in ELSE 0)]
         IN  Return(SumSeq(element_fs))

\* a required positional argument the caller left out
MissingArg == "<missing>"

\* a slip in the "API-87" branch: both comparisons admit equality
isplugged_API87_nonstrict(p, s, kind) ==
    IF kind = "compression" THEN
        LET q == unit_end_bearing(p, s)
            fs == shaft_resistance(p, s, FALSE, TRUE)
            sw == entrapped_soil_weight(p, s)
        IN  IF Raised(q) THEN q
            ELSE IF Raised(fs) THEN fs
            ELSE IF Raised(sw) THEN sw
            ELSE ReturnBool(q.num * (tip_footprint(p) - tip_area(p)) <= fs.num - sw.num)
    ELSE IF kind = "tension" THEN
        LET sw == entrapped_soil_weight(p, s)
            fs == shaft_resistance(p, s, FALSE, TRUE)
        IN  IF Raised(sw) THEN sw
            ELSE IF Raised(fs) THEN fs
            ELSE ReturnBool(sw.num <= fs.num)
    ELSE Raise("UnboundLocalError")

\* the "API-87" branch of isplugged
isplugged_API87(p, s, kind) ==
    IF kind = "compression" THEN
        LET q == unit_end_bearing(p, s)
            fs == shaft_resistance(p, s, FALSE, TRUE)
            sw == entrapped_soil_weight(p, s)
        IN  IF Raised(q) THEN q
            ELSE IF Raised(fs) THEN fs
            ELSE IF Raised(sw) THEN sw
            ELSE ReturnBool(q.num * (tip_footprint(p) - tip_area(p)) < fs.num - sw.num)
    ELSE IF kind = "tension" THEN
        LET sw == entrapped_soil_weight(p, s)
            fs == shaft_resistance(p, s, FALSE, TRUE)
        IN  IF Raised(sw) THEN sw
            ELSE IF Raised(fs) THEN fs
            ELSE ReturnBool(sw.num < fs.num)
    \* no branch assigns answer: return answer reads an unbound local
    ELSE Raise("UnboundLocalError")

\* the "ICP-05" branch of isplugged
isplugged_ICP05(p) ==
    \* m.sqrt(4 * pile.tip_footprint / m.pi), the footprint in units of pi/4
    LET pile_tip_criterion == ISqrt(tip_footprint(p))
    IN  ReturnBool(pile_tip_criterion < PlugDiameterLimit)

\* a slip in isplugged: an unsupported method is answered "not plugged"
isplugged_unsupported_answers(p, s, method, kind) ==
    IF method = MissingArg THEN Raise("TypeError")
    ELSE IF method = "API-87" THEN isplugged_API87(p, s, kind)
    ELSE IF method = "ICP-05" THEN isplugged_ICP05(p)
    ELSE ReturnBool(FALSE)

isplugged(p, s, method, kind) ==
    IF method = MissingArg THEN Raise("TypeError")
    ELSE IF method = "API-87" THEN isplugged_API87(p, s, kind)
    ELSE IF method = "ICP-05" THEN isplugged_ICP05(p)
    ELSE Raise("Exception: Method not implemented")

\* the value of the first of the outcomes that raised, else of the last
RECURSIVE FirstRaised(_)
FirstRaised(rs) ==
    IF Len(rs) = 1 \/ Raised(Head(rs)) THEN Head(rs) ELSE FirstRaised(Tail(rs))

compressioncapacity(p, s) ==
    LET plug == isplugged(p, s, MissingArg, "compression")
    IN  IF Raised(plug) THEN plug
        ELSE IF plug.bool
        THEN \* Q = shaft_resistance(...); the next line is a statement of its own
             LET Q == shaft_resistance(p, s, TRUE, FALSE)
             IN  FirstRaised(<<Q, unit_end_bearing(p, s), entrapped_soil_weight(p, s), Q>>)
        ELSE LET Q == shaft_resistance(p, s, TRUE, TRUE)
             IN  FirstRaised(<<Q, unit_end_bearing(p, s), Q>>)

tensilecapacity(p, s) ==
    LET plug == isplugged(p, s, MissingArg, "tension")
    IN  IF Raised(plug) THEN plug
        ELSE IF plug.bool
        THEN LET fs == shaft_resistance(p, s, TRUE, FALSE)
                 sw == entrapped_soil_weight(p, s)
             IN  IF Raised(fs) THEN fs
                 ELSE IF Raised(sw) THEN sw
                 ELSE Return(fs.num + sw.num)
        ELSE shaft_resistance(p, s, TRUE, TRUE)

-----------------------------------------------------------------------------
(* Lateral constitutive models of openpile.soilmodels: a capability with   *)
(* spring_signature and the curve functions py_spring_fct, mt_spring_fct,  *)
(* Hb_spring_fct, Mb_spring_fct.  A curve function returns the pair        *)
(* (force or moment values, displacement or rotation values), each of      *)
(* output_length points.  "None" is a layer without lateral model.         *)

LateralModelNames == {"L1", "L2"}

\* which of p-y [0], Hb [1], m-t [2], Mb [3] a model provides: "L1" has p-y
\* curves only, with parameters outside its range (its p values are negative),
\* "L2" all four
spring_signature(name) == [n \in 0..3 |-> IF name = "L1" THEN n = 0 ELSE TRUE]

\* a curve of the given slope: the values, then the abscissae 0, 1, 2, ...
curve(slope, output_length) ==
    <<[n \in 0..(output_length - 1) |-> slope * n], [n \in 0..(output_length - 1) |-> n]>>

py_spring_fct(name, sig, X, layer_height, depth_from_top_of_layer, D, L, below_water_table, output_length) ==
    curve((IF name = "L1" THEN -1 ELSE 1)
             * (2 + sig + X + D + (IF below_water_table THEN 1 ELSE 0)), output_length)

mt_spring_fct(name, sig, X, layer_height, depth_from_top_of_layer, D, L, below_water_table, output_length) ==
    curve(5 + sig + depth_from_top_of_layer + layer_height, output_length)

Hb_spring_fct(name, sig, X, layer_height, depth_from_top_of_layer, D, L, below_water_table, output_length) ==
    curve(7 + sig + D + layer_height, output_length)

Mb_spring_fct(name, sig, X, layer_height, depth_from_top_of_layer, D, L, below_water_table, output_length) ==
    curve(11 + sig + X + L, output_length)

-----------------------------------------------------------------------------
(* construct.py: Model.  Arrays are numpy arrays: a shape and the entries, *)
(* indexed from 0 along every axis; element i of an array is row i + 1 of  *)
(* the property tables.  Attribute assignments on the Model object are     *)
(* taken to succeed.                                                       *)

\* dim of springs
spring_dim == 15

\* the entries of an array of zeros of the given shape
RECURSIVE zeros(_)
zeros(shape) ==
    IF shape = <<>> THEN 0 ELSE [n \in 0..(Head(shape) - 1) |-> zeros(Tail(shape))]

\* np.zeros(shape)
np_zeros(shape) == [shape |-> shape, data |-> zeros(shape)]

\* what the assignment of the one-dimensional array arr to a block of the given
\* shape leaves in the block: arr itself, or arr in every row
RECURSIVE broadcast_to(_, _)
broadcast_to(arr, shape) ==
    IF Len(shape) <= 1 THEN arr
    ELSE [n \in 0..(Head(shape) - 1) |-> broadcast_to(arr, Tail(shape))]

\* a local variable that no statement has assigned yet
Unbound == -1

\* the Model a caller asks for: the four spring toggles (name, element_type and
\* x2mesh play no part; the coarseness is that of the property tables)
ModelFields(distributed_lateral, distributed_moment, base_shear, base_moment) ==
    [distributed_lateral |-> distributed_lateral,
     distributed_moment |-> distributed_moment,
     base_shear |-> base_shear,
     base_moment |-> base_moment]

\* the shapes create_springs allocates for element_number elements, and the
\* shape of the block a[i, j, axis] of an array of a given shape
py_shape(element_number) == <<element_number, 2, 2, spring_dim>>
mt_shape(element_number) == <<element_number, 2, 2, spring_dim, spring_dim>>
Hb_shape == <<1, 1, 2, spring_dim>>
Mb_shape == <<1, 1, 2, spring_dim>>
block_shape(shape) == SubSeq(shape, 4, Len(shape))

\* the locals of create_springs after the allocation: the four arrays, the
\* number of evaluations of each curve function so far, the loop variable
\* pile_width, and the exception raised so far
allocate_springs(element_number) ==
    [py |-> np_zeros(py_shape(element_number)),
     mt |-> np_zeros(mt_shape(element_number)),
     Hb |-> np_zeros(Hb_shape),
     Mb |-> np_zeros(Mb_shape),
     calls |-> [py |-> 0, mt |-> 0, Hb |-> 0, Mb |-> 0],
     pile_width |-> Unbound,
     exc |-> ""]

\* the body of the loop of create_springs for one layer, from the locals st
create_springs_layer(p, s, m, sp, ep, layer, st) ==
    LET name == layer.lateral_model
        \* .index of the rows of the layer, from 0
        elems == { r - 1 : r \in elements_for_layer(sp, layer) }
        sig_v(i) == <<sp[i + 1].sigma_v_top, sp[i + 1].sigma_v_bottom>>
        elevation(i) == <<sp[i + 1].x_top, sp[i + 1].x_bottom>>
        depth_from_ground(i) == <<Abs(sp[i + 1].xg_top), Abs(sp[i + 1].xg_bottom)>>
        width(i) == ep[i + 1].Diameter
        L == s.top_elevation - Pile_bottom_elevation(p)
        with_py == spring_signature(name)[0] /\ m.distributed_lateral
        with_mt == spring_signature(name)[2] /\ m.distributed_moment
        py_end(i, j) ==
            py_spring_fct(name, sig_v(i)[j + 1], depth_from_ground(i)[j + 1],
                          layer.top - layer.bottom, layer.top - elevation(i)[j + 1],
                          width(i), L, elevation(i)[j + 1] <= s.water_line, spring_dim)
        mt_end(i, j) ==
            mt_spring_fct(name, sig_v(i)[j + 1], depth_from_ground(i)[j + 1],
                          layer.top - layer.bottom, layer.top - elevation(i)[j + 1],
                          width(i), L, elevation(i)[j + 1] <= s.water_line, spring_dim)
        \* (a[i, j, 1], a[i, j, 0]) = fct(...): the first array returned goes to
        \* axis index 1, the second to axis index 0
        py1 == [i \in DOMAIN st.py.data |->
                  IF i \in elems /\ with_py
                  THEN [j \in 0..1 |->
                          [a \in 0..1 |->
                              broadcast_to(py_end(i, j)[IF a = 1 THEN 1 ELSE 2],
                                           block_shape(st.py.shape))]]
                  ELSE st.py.data[i]]
        mt1 == [i \in DOMAIN st.mt.data |->
                  IF i \in elems /\ with_mt
                  THEN [j \in 0..1 |->
                          [a \in 0..1 |->
                              broadcast_to(mt_end(i, j)[IF a = 1 THEN 1 ELSE 2],
                                           block_shape(st.mt.shape))]]
                  ELSE st.mt.data[i]]
        \* pile_width keeps the width of the last element the loop went through
        pile_width1 == IF elems = {} THEN st.pile_width
                       ELSE width(CHOOSE i \in elems : \A e \in elems : e <= i)
        tip_within_layer == /\ layer.top >= Pile_bottom_elevation(p)
                            /\ layer.bottom <= Pile_bottom_elevation(p)
        sig_v_tip == sp[Len(sp)].sigma_v_bottom
        with_Hb == tip_within_layer /\ spring_signature(name)[1] /\ m.base_shear
        with_Mb == tip_within_layer /\ spring_signature(name)[3] /\ m.base_moment
        Hb_tip == Hb_spring_fct(name, sig_v_tip, s.top_elevation - Soil_bottom_elevation(s),
                                layer.top - layer.bottom,
                                layer.top - Pile_bottom_elevation(p), pile_width1, L,
                                Pile_bottom_elevation(p) <= s.water_line, spring_dim)
        Mb_tip == Mb_spring_fct(name, sig_v_tip, s.top_elevation - Soil_bottom_elevation(s),
                                layer.top - layer.bottom,
                                layer.top - Pile_bottom_elevation(p), pile_width1, L,
                                Pile_bottom_elevation(p) <= s.water_line, spring_dim)
        elements_done ==
            [st EXCEPT !.py.data = py1, !.mt.data = mt1, !.pile_width = pile_width1,
                       !.calls.py = @ + (IF with_py THEN 2 * Cardinality(elems) ELSE 0),
                       !.calls.mt = @ + (IF with_mt THEN 2 * Cardinality(elems) ELSE 0)]
    IN  IF name = "None" THEN st
        ELSE IF (with_Hb \/ with_Mb) /\ pile_width1 = Unbound
        THEN \* D=pile_width reads a local that no element has assigned
             [elements_done EXCEPT !.exc = "UnboundLocalError"]
        ELSE [elements_done EXCEPT
                !.Hb.data = IF with_Hb
                       THEN [x \in 0..0 |-> [y \in 0..0 |->
                               [a \in 0..1 |-> Hb_tip[IF a = 1 THEN 1 ELSE 2]]]]
                       ELSE @,
                !.Mb.data = IF with_Mb
                       THEN [x \in 0..0 |-> [y \in 0..0 |->
                               [a \in 0..1 |-> Mb_tip[IF a = 1 THEN 1 ELSE 2]]]]
                       ELSE @,
                !.calls.Hb = @ + (IF with_Hb THEN 1 ELSE 0),
                !.calls.Mb = @ + (IF with_Mb THEN 1 ELSE 0)]

\* the loop of create_springs over soil.layers[k..], from the locals st
RECURSIVE create_springs_loop(_, _, _, _, _, _, _)
create_springs_loop(p, s, m, sp, ep, k, st) ==
    IF k > Len(s.layers) \/ st.exc # "" THEN st
    ELSE create_springs_loop(p, s, m, sp, ep, k + 1,
             create_springs_layer(p, s, m, sp, ep, s.layers[k], st))

\* the locals of create_springs when control leaves it, exc the exception that
\* ends it
create_springs(p, s, m, sp, ep) ==
    LET allocated == allocate_springs(Len(ep))
        filled == create_springs_loop(p, s, m, sp, ep, 1, allocated)
    IN  \* self.soil.layers without a soil profile
        IF ~s.present THEN [allocated EXCEPT !.exc = "AttributeError"]
        ELSE IF filled.exc # "" THEN filled
        \* check_springs is bound nowhere in construct.py
        ELSE [filled EXCEPT !.exc = "NameError"]

\* a nodal table: one row per node, the named columns set to the value v
nodal_table(p, columns, v) ==
    [n \in 1..(ElementCount(p) + 1) |->
        [c \in {"x"} \cup columns |->
            IF c = "x" THEN Pile_top_elevation(p) - (n - 1) * Coarseness ELSE v]]

\* the Model object model_post_init leaves, the locals of its create_springs,
\* and the exception that ends it; attrs are the attributes it has assigned
model_post_init(p, s, m) ==
    LET ep == element_properties(p)
        sp == IF s.present THEN soil_properties(p, s) ELSE <<>>
        springs == create_springs(p, s, m, sp, ep)
        self == [fields |-> m,
                 attrs |-> {"soil_properties", "element_properties", "nodes_coordinates",
                            "element_coordinates", "element_number"},
                 element_number |-> Len(ep),
                 py_springs |-> <<>>, mt_springs |-> <<>>,
                 Hb_spring |-> <<>>, Mb_spring |-> <<>>,
                 global_forces |-> <<>>, global_disp |-> <<>>, global_restrained |-> <<>>]
    IN  IF springs.exc # ""
        THEN [exc |-> springs.exc, self |-> self, create_springs |-> springs]
        ELSE [exc |-> "",
              self |-> [self EXCEPT
                  !.attrs = @ \cup {"_py_springs", "_mt_springs", "_Hb_spring", "_Mb_spring",
                                    "_tz_springs", "global_forces", "global_disp",
                                    "global_restrained"},
                  !.py_springs = springs.py,
                  !.mt_springs = springs.mt,
                  !.Hb_spring = springs.Hb,
                  !.Mb_spring = springs.Mb,
                  !.global_forces = nodal_table(p, {"Px", "Py", "Mz"}, 0),
                  !.global_disp = nodal_table(p, {"Tx", "Ty", "Rz"}, 0),
                  !.global_restrained = nodal_table(p, {"Tx", "Ty", "Rz"}, FALSE)],
              create_springs |-> springs]

\* what a getter of a built Model returns: None, or a value
None == [none |-> TRUE, value |-> <<>>]
Some(v) == [none |-> FALSE, value |-> v]

embedment(self, p, s) ==
    IF ~s.present THEN None ELSE Some(s.top_elevation - Pile_bottom_elevation(p))

\* the springs of the elements, as misc.get_reduced_springs tabulates them
get_py_springs(self, s) == IF ~s.present THEN None ELSE Some(self.py_springs.data)
get_mt_springs(self, s) == IF ~s.present THEN None ELSE Some(self.mt_springs.data)

\* the two rows of the table, the array reshaped to (2, spring_dim): the type
\* label and the VAL columns
get_Hb_spring(self, s) ==
    IF ~s.present THEN None
    ELSE Some(<<[type |-> "Hb", VAL |-> self.Hb_spring.data[0][0][0]],
                [type |-> "y", VAL |-> self.Hb_spring.data[0][0][1]]>>)

get_Mb_spring(self, s) ==
    IF ~s.present THEN None
    ELSE Some(<<[type |-> "Mb", VAL |-> self.Hb_spring.data[0][0][0]],
                [type |-> "t", VAL |-> self.Hb_spring.data[0][0][1]]>>)

(* Boundary conditions of a Model.  The elevation of a call is a record    *)
(* [x, off]: x in decimetres, as the nodes, plus off quarter millimetres.  *)
(* A load, displacement or rotation argument is None or Some(value).       *)

\* atol=0.001 of np.isclose, in quarter millimetres
atol == 4

\* self.nodes_coordinates["x [m]"], of which the nodal tables are copies
nodes_elevations(self) == [n \in DOMAIN self.global_forces |-> self.global_forces[n].x]

\* np.isclose(node, elevation, atol=0.001); the relative term 1e-05 * elevation
\* is under a quarter millimetre for elevations within 25 m of the datum
np_isclose(node, elevation) == node = elevation.x /\ Abs(elevation.off) <= atol

\* np.where(check == True)[0]: the nodes at the elevation
where_check(self, elevation) ==
    { n \in DOMAIN nodes_elevations(self) : np_isclose(nodes_elevations(self)[n], elevation) }

\* the outcome of a call that finds no node, one node (changed to the table
\* rows given), or several (int() of an array of several indices)
boundary_outcome(self, nodes, applied) ==
    IF nodes = {} THEN [exc |-> "", self |-> self, printed |-> "not applied"]
    ELSE IF Cardinality(nodes) > 1 THEN [exc |-> "TypeError", self |-> self, printed |-> ""]
    ELSE [exc |-> "", self |-> applied, printed |-> ""]

set_pointload(self, elevation, Py, Px, Mz) ==
    LET nodes == where_check(self, elevation)
        node_idx == CHOOSE n \in nodes : TRUE
    IN  boundary_outcome(self, nodes,
            [self EXCEPT !.global_forces[node_idx] =
                [@ EXCEPT !.Px = IF Px.none THEN @ ELSE Px.value,
                          !.Py = IF Py.none THEN @ ELSE Py.value,
                          !.Mz = IF Mz.none THEN @ ELSE Mz.value]])

\* a given displacement restrains its degree of freedom if it is above 0.0
set_pointdisplacement(self, elevation, Ty, Tx, Rz) ==
    LET nodes == where_check(self, elevation)
        node_idx == CHOOSE n \in nodes : TRUE
    IN  boundary_outcome(self, nodes,
            [self EXCEPT
                !.global_disp[node_idx] =
                    [@ EXCEPT !.Tx = IF Tx.none THEN @ ELSE Tx.value,
                              !.Ty = IF Ty.none THEN @ ELSE Ty.value,
                              !.Rz = IF Rz.none THEN @ ELSE Rz.value],
                !.global_restrained[node_idx] =
                    [@ EXCEPT !.Tx = IF Tx.none THEN @ ELSE Tx.value > 0,
                              !.Ty = IF Ty.none THEN @ ELSE Ty.value > 0,
                              !.Rz = IF Rz.none THEN @ ELSE Rz.value > 0]])

\* Ty, Tx, Rz are booleans, False when left out
set_support(self, elevation, Ty, Tx, Rz) ==
    LET nodes == where_check(self, elevation)
        node_idx == CHOOSE n \in nodes : TRUE
    IN  boundary_outcome(self, nodes,
            [self EXCEPT !.global_restrained[node_idx] =
                [@ EXCEPT !.Tx = Tx, !.Ty = Ty, !.Rz = Rz]])

-----------------------------------------------------------------------------
(* The piles and soil profiles the functions are called with: objects as   *)
(* construct.py builds them (sections sorted and contiguous, layers        *)
(* contiguous below top_elevation, weights above 10), the pile tip in the  *)
(* ground.                                                                 *)

RECURSIVE SumTo(_, _)
SumTo(f, n) == IF n = 0 THEN 0 ELSE f[n] + SumTo(f, n - 1)

Piles ==
    { [unitweight |-> uw,
       pile_sections |->
          [k \in 1..n |->
              [top_elevation |-> top - SumTo(len, k - 1),
               bottom_elevation |-> top - SumTo(len, k),
               diameter |-> SectionShapes[((k + first) % Len(SectionShapes)) + 1][1],
               thickness |-> SectionShapes[((k + first) % Len(SectionShapes)) + 1][2]]]] :
        <<uw, top, n, len, first>> \in
            UNION { MaterialUnitWeights
                      \X { g + u : g \in GroundLevels, u \in StickUps }
                      \X {m}
                      \X [1..m -> SectionLengths]
                      \X (1..Len(SectionShapes)) : m \in 1..MaxSections } }

\* the layers of a profile from the ground line down
LayerStacks ==
    { [k \in 1..n |->
          [top |-> g - SumTo(thk, k - 1),
           bottom |-> g - SumTo(thk, k),
           weight |-> LayerWeights[((k + w) % 2) + 1],
           axial_model |-> am[k]]] :
        <<g, n, thk, w, am>> \in
            UNION { GroundLevels
                      \X {m}
                      \X [1..m -> LayerThicknesses]
                      \X WeightOrders
                      \X [1..m -> AxialModelNames \cup {"None"}] : m \in 1..MaxLayers } }

\* SoilProfile keeps the layers in the order they were given in
SoilProfiles ==
    { [present |-> TRUE, top_elevation |-> stack[1].top, water_line |-> stack[1].top + wl,
       layers |-> layers] :
        <<stack, wl, layers>> \in
            UNION { {st} \X WaterLines \X Perms(st) : st \in LayerStacks } }

Methods == {"API-87", "ICP-05", "Fugro-05"}
Kinds == {"compression", "tension", "uplift"}

NoCall ==
    [fn |-> "", method |-> "", kind |-> "", outer_shaft |-> FALSE, inner_shaft |-> FALSE,
     args |-> <<>>]

\* no Model has been asked for
NoModel == [exc |-> "", self |-> <<>>, create_springs |-> <<>>]

Init ==
    /\ pile \in Piles
    /\ soil \in SoilProfiles \cup {NoSoil}
    /\ soil.present =>
          /\ Pile_bottom_elevation(pile) < soil.top_elevation
          /\ Pile_bottom_elevation(pile) >= Soil_bottom_elevation(soil)
    /\ call = NoCall
    /\ ret = Return(0)
    /\ model = NoModel

Call_effective_pile_weight ==
    /\ call = NoCall
    /\ call' = [NoCall EXCEPT !.fn = "effective_pile_weight"]
    /\ ret' = effective_pile_weight(pile, soil)
    /\ UNCHANGED <<pile, soil, model>>

\* a slip in isplugged: the layers of the profile are sorted in place, topmost
\* first, before the check
Call_isplugged_sorting_layers ==
    \E method \in Methods, kind \in Kinds :
        /\ call = NoCall
        /\ call' = [NoCall EXCEPT !.fn = "isplugged", !.method = method, !.kind = kind]
        /\ ret' = isplugged(pile, soil, method, kind)
        /\ soil' = IF soil.present
                   THEN [soil EXCEPT !.layers =
                           CHOOSE l \in Perms(soil.layers) :
                               \A k \in 1..(Len(l) - 1) : l[k].top > l[k + 1].top]
                   ELSE soil
        /\ UNCHANGED <<pile, model>>

Call_isplugged ==
    \E method \in Methods, kind \in Kinds :
        /\ call = NoCall
        /\ call' = [NoCall EXCEPT !.fn = "isplugged", !.method = method, !.kind = kind]
        /\ ret' = isplugged(pile, soil, method, kind)
        /\ UNCHANGED <<pile, soil, model>>

Call_compressioncapacity ==
    /\ call = NoCall
    /\ call' = [NoCall EXCEPT !.fn = "compressioncapacity"]
    /\ ret' = compressioncapacity(pile, soil)
    /\ UNCHANGED <<pile, soil, model>>

Call_tensilecapacity ==
    /\ call = NoCall
    /\ call' = [NoCall EXCEPT !.fn = "tensilecapacity"]
    /\ ret' = tensilecapacity(pile, soil)
    /\ UNCHANGED <<pile, soil, model>>

Call_unit_end_bearing ==
    /\ call = NoCall
    /\ call' = [NoCall EXCEPT !.fn = "unit_end_bearing"]
    /\ ret' = unit_end_bearing(pile, soil)
    /\ UNCHANGED <<pile, soil, model>>

Call_entrapped_soil_weight ==
    /\ call = NoCall
    /\ call' = [NoCall EXCEPT !.fn = "entrapped_soil_weight"]
    /\ ret' = entrapped_soil_weight(pile, soil)
    /\ UNCHANGED <<pile, soil, model>>

Call_shaft_resistance ==
    \E outer_shaft \in BOOLEAN, inner_shaft \in BOOLEAN :
        /\ call = NoCall
        /\ call' = [NoCall EXCEPT !.fn = "shaft_resistance",
                                  !.outer_shaft = outer_shaft, !.inner_shaft = inner_shaft]
        /\ ret' = shaft_resistance(pile, soil, outer_shaft, inner_shaft)
        /\ UNCHANGED <<pile, soil, model>>

\* the caller takes the outcome; the next call starts from the same objects,
\* and a constructor that raised leaves no object
Return_to_caller ==
    /\ call # NoCall
    /\ call' = NoCall
    /\ ret' = Return(0)
    /\ model' = IF Raised(ret) THEN NoModel ELSE model
    /\ UNCHANGED <<pile, soil>>

Next ==
    \/ Call_effective_pile_weight
    \/ Call_isplugged
    \/ Call_compressioncapacity
    \/ Call_tensilecapacity
    \/ Call_unit_end_bearing
    \/ Call_entrapped_soil_weight
    \/ Call_shaft_resistance
    \/ Return_to_caller

Spec == Init /\ [][Next]_vars

-----------------------------------------------------------------------------
(* Model(name, pile, soil, coarseness=0.1, distributed_lateral,            *)
(* distributed_moment, base_shear, base_moment) over the piles above and   *)
(* soil profiles whose layers have a lateral model or none.                *)

\* the profiles of SoilProfiles without axial model, every layer with one of
\* the lateral models or none
LateralSoilProfiles ==
    UNION { { [s EXCEPT !.layers =
                 [k \in DOMAIN s.layers |->
                     [top |-> s.layers[k].top, bottom |-> s.layers[k].bottom,
                      weight |-> s.layers[k].weight,
                      axial_model |-> s.layers[k].axial_model,
                      lateral_model |-> lm[k]]]] :
                lm \in [DOMAIN s.layers -> LateralModelNames \cup {"None"}] } :
            s \in { sp \in SoilProfiles :
                      \A k \in DOMAIN sp.layers : sp.layers[k].axial_model = "None" } }

\* the pile ends in the soil profile, as soil_and_pile_bottom_elevation_match
\* requires
InitModel ==
    /\ pile \in Piles
    /\ soil \in LateralSoilProfiles \cup {NoSoil}
    /\ soil.present =>
          /\ Pile_bottom_elevation(pile) < soil.top_elevation
          /\ Pile_bottom_elevation(pile) >= Soil_bottom_elevation(soil)
    /\ call = NoCall
    /\ ret = Return(0)
    /\ model = NoModel

\* the constructor returns the Model object, or model_post_init raises
Call_Model ==
    \E distributed_lateral \in BOOLEAN, distributed_moment \in BOOLEAN,
       base_shear \in BOOLEAN, base_moment \in BOOLEAN :
        /\ call = NoCall
        /\ call' = [NoCall EXCEPT !.fn = "Model"]
        /\ model' = model_post_init(pile, soil,
                        ModelFields(distributed_lateral, distributed_moment,
                                    base_shear, base_moment))
        /\ ret' = IF model'.exc # "" THEN Raise(model'.exc) ELSE ReturnObject("Model")
        /\ UNCHANGED <<pile, soil>>

NextModel ==
    \/ Call_Model
    \/ Return_to_caller

SpecModel == InitModel /\ [][NextModel]_vars

-----------------------------------------------------------------------------
(* The construction of a Pile from the sections a caller supplies, in any  *)
(* order, connected or not.                                                *)

\* elevations of the tops and bottoms of the sections supplied
SectionElevations == {0, -1, -2, -3}

\* the arguments of Pile: up to MaxSections sections, the k-th supplied with the
\* k-th shape
PileArgs ==
    { [unitweight |-> uw,
       pile_sections |->
          [k \in 1..n |->
              [top_elevation |-> ends[k][1], bottom_elevation |-> ends[k][2],
               diameter |-> SectionShapes[k][1], thickness |-> SectionShapes[k][2]]]] :
        <<uw, n, ends>> \in
            UNION { MaterialUnitWeights \X {m}
                      \X [1..m -> SectionElevations \X SectionElevations] :
                    m \in 0..MaxSections } }

InitPile ==
    /\ pile = NoPile
    /\ soil = NoSoil
    /\ call = NoCall
    /\ ret = Return(0)
    /\ model = NoModel

\* the constructor returns the Pile object, or a validator raises and the
\* caller keeps the pile it had
Call_Pile ==
    \E args \in PileArgs :
        /\ call = NoCall
        /\ call' = [NoCall EXCEPT !.fn = "Pile", !.args = args]
        /\ pile' = IF Pile(args).exc = "" THEN Pile(args).self ELSE pile
        /\ ret' = IF Pile(args).exc = "" THEN ReturnObject("Pile") ELSE Raise(Pile(args).exc)
        /\ UNCHANGED <<soil, model>>

NextPile ==
    \/ Call_Pile
    \/ Return_to_caller

SpecPile == InitPile /\ [][NextPile]_vars

-----------------------------------------------------------------------------
(* The construction of a SoilProfile from the layers a caller supplies.    *)
(* Elevations are counted in quarter millimetres here, so that the         *)
(* tolerance 0.001 m is 4 and an offset of 0.75 mm lies within it.         *)

\* largest number of layers supplied to SoilProfile
MaxSuppliedLayers == 3
\* nominal thickness of a layer (1 cm)
NominalThickness == 40
\* how far the top of a layer is above the bottom of the layer over it (or, for
\* the uppermost layer, above top_elevation)
Offsets == {-5, -4, -3, 0, 3, 4, 5}
\* the layers are listed from the top down, or from the bottom up
Listings == {"down", "up"}

SoilProfileArgs ==
    { [top_elevation |-> g, water_line |-> g,
       layers |->
          [k \in 1..n |->
              LET i == IF listing = "down" THEN k ELSE n + 1 - k
              IN  [top |-> g - (i - 1) * NominalThickness + off[i],
                   bottom |-> g - i * NominalThickness,
                   weight |-> LayerWeights[(i % 2) + 1]]]] :
        <<g, n, off, listing>> \in
            UNION { GroundLevels \X {m} \X [1..m -> Offsets] \X Listings :
                    m \in 0..MaxSuppliedLayers } }

InitSoilProfile ==
    /\ pile = NoPile
    /\ soil = NoSoil
    /\ call = NoCall
    /\ ret = Return(0)
    /\ model = NoModel

\* the constructor returns the SoilProfile object, or a validator raises and
\* the caller keeps the profile it had
Call_SoilProfile ==
    \E args \in SoilProfileArgs :
        /\ call = NoCall
        /\ call' = [NoCall EXCEPT !.fn = "SoilProfile", !.args = args]
        /\ soil' = IF SoilProfile(args).exc = "" THEN SoilProfile(args).self ELSE soil
        /\ ret' = IF SoilProfile(args).exc = "" THEN ReturnObject("SoilProfile")
                  ELSE Raise(SoilProfile(args).exc)
        /\ UNCHANGED <<pile, model>>

NextSoilProfile ==
    \/ Call_SoilProfile
    \/ Return_to_caller

SpecSoilProfile == InitSoilProfile /\ [][NextSoilProfile]_vars

-----------------------------------------------------------------------------
(* Properties of the axial capacity engine *)

\* the layers of soil s whose closed span [bottom, top] holds the pile tip
TipLayers(p, s) ==
    { k \in 1..Len(s.layers) :
        /\ s.layers[k].top >= Pile_bottom_elevation(p)
        /\ s.layers[k].bottom <= Pile_bottom_elevation(p) }

\* the sum of f[x] over the set X of integers
RECURSIVE SumOver(_, _)
SumOver(f, X) ==
    IF X = {} THEN 0
    ELSE LET x == CHOOSE y \in X : TRUE IN f[x] + SumOver(f, X \ {x})

\* the elements of the pile, each named by the elevation of its top
ElementTops(p) == (Pile_bottom_elevation(p) + 1)..Pile_top_elevation(p)

\* the section and the layers that cover the element [x - 1, x]
SectionAt(p, x) ==
    CHOOSE sec \in { p.pile_sections[k] : k \in 1..Len(p.pile_sections) } :
        sec.top_elevation >= x /\ sec.bottom_elevation <= x - 1
LayersAt(s, x) ==
    { k \in 1..Len(s.layers) : s.layers[k].top >= x /\ s.layers[k].bottom <= x - 1 }

\* the values the three ingredients of the capacity formulae return
Qb == unit_end_bearing(pile, soil).num
Fs(outer, inner) == shaft_resistance(pile, soil, outer, inner).num
Wsoil == entrapped_soil_weight(pile, soil).num

\* C1: compressioncapacity returns, when the pile is plugged in compression,
\* shaft_resistance(outer only) + unit_end_bearing * tip_footprint -
\* entrapped_soil_weight, and when it is not plugged, shaft_resistance(outer
\* and inner) + unit_end_bearing * tip_area.
C1_compressioncapacity_value ==
    (call.fn = "compressioncapacity" /\ soil.present) =>
        /\ ~Raised(ret)
        /\ \E method \in {"API-87", "ICP-05"} :
              ret.num = IF isplugged(pile, soil, method, "compression").bool
                        THEN Fs(TRUE, FALSE) + Qb * tip_footprint(pile) - Wsoil
                        ELSE Fs(TRUE, TRUE) + Qb * tip_area(pile)

\* C2: tensilecapacity returns, when the pile is plugged in tension,
\* shaft_resistance(outer only) combined with the entrapped soil weight, and
\* when it is not plugged, shaft_resistance(outer and inner) alone.
C2_tensilecapacity_value ==
    (call.fn = "tensilecapacity" /\ soil.present) =>
        /\ ~Raised(ret)
        /\ \E method \in {"API-87", "ICP-05"} :
              ret.num = IF isplugged(pile, soil, method, "tension").bool
                        THEN Fs(TRUE, FALSE) + Wsoil
                        ELSE Fs(TRUE, TRUE)

\* C3: isplugged with method "API-87" returns, for kind "compression", the truth
\* value of unit_end_bearing * (tip_footprint - tip_area) < inner shaft
\* resistance - entrapped_soil_weight, and for kind "tension" the truth value of
\* entrapped_soil_weight < inner shaft resistance; both inequalities are strict.
C3_isplugged_API87 ==
    (call.fn = "isplugged" /\ call.method = "API-87" /\ soil.present) =>
        /\ call.kind = "compression" =>
              /\ ~Raised(ret)
              /\ ret.bool = (Qb * (tip_footprint(pile) - tip_area(pile))
                                < Fs(FALSE, TRUE) - Wsoil)
        /\ call.kind = "tension" =>
              /\ ~Raised(ret)
              /\ ret.bool = (Wsoil < Fs(FALSE, TRUE))

\* C3 happens: a tension check where the entrapped soil weighs exactly the inner
\* shaft resistance has returned "not plugged"
C3_Witness_equality ==
    /\ call.fn = "isplugged" /\ call.method = "API-87" /\ call.kind = "tension"
    /\ soil.present
    /\ Wsoil = Fs(FALSE, TRUE)
    /\ ret = ReturnBool(FALSE)

\* C4: isplugged with method "ICP-05" returns true exactly when the outer
\* diameter of the bottom section is strictly less than 1.4 m, whatever the kind
\* and the soil profile (none included).
C4_isplugged_ICP05 ==
    (call.fn = "isplugged" /\ call.method = "ICP-05") =>
        ret = ReturnBool(pile.pile_sections[Len(pile.pile_sections)].diameter
                            < PlugDiameterLimit)

\* C4 happens: without a soil profile and with another kind than "compression",
\* a pile whose tip is 1.4 m wide below a narrower head is found not plugged
C4_Witness_limit ==
    /\ call.fn = "isplugged" /\ call.method = "ICP-05" /\ call.kind = "uplift"
    /\ ~soil.present
    /\ pile.pile_sections[Len(pile.pile_sections)].diameter = PlugDiameterLimit
    /\ pile.pile_sections[1].diameter < PlugDiameterLimit
    /\ ret = ReturnBool(FALSE)

\* C5: isplugged with a method other than "API-87" and "ICP-05" raises the
\* unsupported-method error and returns no value, whatever the kind.
C5_isplugged_unsupported ==
    (call.fn = "isplugged" /\ call.method \notin {"API-87", "ICP-05"}) =>
        ret = Raise("Exception: Method not implemented")

\* C5 happens: an unsupported method with an unsupported kind has raised
C5_Witness_raised ==
    /\ call.fn = "isplugged" /\ call.method = "Fugro-05" /\ call.kind = "uplift"
    /\ Raised(ret)

\* C6: unit_end_bearing returns 0 whenever the layer that holds the pile tip has
\* no axial model.
C6_unit_end_bearing_zero ==
    (/\ call.fn = "unit_end_bearing" /\ soil.present
     /\ \E k \in TipLayers(pile, soil) : soil.layers[k].axial_model = "None") =>
        ret = Return(0)

\* the unit tip resistance of layer k at the pile tip, times its Q_multiplier
TipResistance(p, s, k) ==
    unit_tip_resistance(s.layers[k].axial_model, sigma_v(s, Pile_bottom_elevation(p)),
                        s.top_elevation - Soil_bottom_elevation(s),
                        s.layers[k].top - s.layers[k].bottom)
        * AxialModel(s.layers[k].axial_model).Q_multiplier

\* C7: when the layer that holds the pile tip has an axial model,
\* unit_end_bearing returns that layer's unit tip resistance at the bottommost
\* effective stress times its Q_multiplier, whatever the other layers are.
C7_unit_end_bearing_tip_layer ==
    (/\ call.fn = "unit_end_bearing" /\ soil.present
     /\ Cardinality(TipLayers(pile, soil)) = 1) =>
        \A k \in TipLayers(pile, soil) :
            soil.layers[k].axial_model # "None" =>
                ret = Return(TipResistance(pile, soil, k))

\* C8: entrapped_soil_weight is the sum, over the elements covered by a layer,
\* of the inner volume times the layer weight minus 10 when the element
\* mid-point is below the water line, and times the full layer weight when it
\* is above.
C8_entrapped_soil_weight_buoyancy ==
    (call.fn = "entrapped_soil_weight" /\ soil.present) =>
        ret = Return(SumOver(
                [x \in ElementTops(pile) |->
                    LET sec == SectionAt(pile, x)
                        inner == (sec.diameter - 2 * sec.thickness)
                                   * (sec.diameter - 2 * sec.thickness)
                    IN  IF LayersAt(soil, x) = {} THEN 0
                        ELSE LET w == soil.layers[CHOOSE k \in LayersAt(soil, x) : TRUE].weight
                             IN  IF (x - 1) + x < 2 * soil.water_line
                                 THEN (w - 10) * inner
                                 ELSE w * inner],
                ElementTops(pile)))

\* C9: effective_pile_weight is the sum over the elements of length * steel area
\* * unit weight, the unit weight being the material's minus 10 for an element
\* whose bottom is strictly below the water line and the material's otherwise.
C9_effective_pile_weight ==
    (call.fn = "effective_pile_weight" /\ soil.present) =>
        ret = Return(SumOver(
                [x \in ElementTops(pile) |->
                    get_area(SectionAt(pile, x))
                        * (IF x - 1 < soil.water_line
                           THEN pile.unitweight - 10 ELSE pile.unitweight)],
                ElementTops(pile)))

\* C9 happens: a weight was returned for a pile with an element whose bottom is
\* at the water line, an element above it and an element below it
C9_Witness_at_water_line ==
    /\ call.fn = "effective_pile_weight" /\ soil.present /\ ~Raised(ret)
    /\ \E x \in ElementTops(pile) : x - 1 = soil.water_line
    /\ \E x \in ElementTops(pile) : x - 1 < soil.water_line
    /\ Len(pile.pile_sections) > 1

\* C10: effective_pile_weight without a soil profile raises and returns no value.
C10_effective_pile_weight_no_soil ==
    (call.fn = "effective_pile_weight" /\ ~soil.present) =>
        ret = Raise("Exception: Model must be linked to a soil profile")

\* C10 happens: effective_pile_weight was called without a soil profile
C10_Witness_no_soil ==
    /\ call.fn = "effective_pile_weight" /\ ~soil.present /\ Raised(ret)

\* soil profile s with the unit weight of its k-th layer doubled
WithDoubledWeight(s, k) == [s EXCEPT !.layers[k].weight = 2 * @]

\* per element, the weight entrapped_soil_weight sums up
ElementSoilWeights(p, s) ==
    entrapped_soil_weight_loop(s, soil_properties(p, s), pile_inside_volume(p, s), 1,
                               [i \in 1..ElementCount(p) |-> 0])

\* the elements owned by the k-th layer of s
OwnedElements(p, s, k) == elements_for_layer(soil_properties(p, s), s.layers[k])

\* C11 as stated: entrapped_soil_weight is linear in each layer's unit weight:
\* with geometry, elevations and water line fixed, doubling one layer's weight
\* doubles the summed contribution of the elements owned by that layer, above
\* and below the water line.
C11_entrapped_soil_weight_doubles ==
    (call.fn = "entrapped_soil_weight" /\ soil.present) =>
        \A k \in 1..Len(soil.layers) :
            LET owned == OwnedElements(pile, soil, k)
                contribution == SumOver(ElementSoilWeights(pile, soil), owned)
            IN  /\ SumOver(ElementSoilWeights(pile, WithDoubledWeight(soil, k)), owned)
                      = 2 * contribution
                /\ entrapped_soil_weight(pile, WithDoubledWeight(soil, k)).num
                      = ret.num + contribution

\* C11: entrapped_soil_weight is affine in each layer's unit weight: doubling
\* the weight w of one layer raises the weight of every element owned by that
\* layer by w times the element's inner volume and leaves the other elements
\* as they are, so an element's weight doubles only where no water weight was
\* deducted from w (or the inner volume is 0).
C11_entrapped_soil_weight_affine ==
    (call.fn = "entrapped_soil_weight" /\ soil.present) =>
        \A k \in 1..Len(soil.layers) :
            LET owned == OwnedElements(pile, soil, k)
                Vi == pile_inside_volume(pile, soil)
                w == soil.layers[k].weight
                sw == ElementSoilWeights(pile, soil)
                sw2 == ElementSoilWeights(pile, WithDoubledWeight(soil, k))
            IN  /\ \A i \in DOMAIN sw :
                      sw2[i] = IF i \in owned THEN sw[i] + w * Vi[i] ELSE sw[i]
                /\ \A i \in owned : (sw2[i] = 2 * sw[i]) <=> (sw[i] = w * Vi[i])
                /\ entrapped_soil_weight(pile, WithDoubledWeight(soil, k)).num
                      = ret.num + w * SumOver(Vi, owned)

\* C11 happens: entrapped_soil_weight has returned for a profile with a layer
\* that owns a hollow element weighed in full and a hollow element weighed
\* with the water weight deducted
C11_Witness_both_sides ==
    /\ call.fn = "entrapped_soil_weight" /\ soil.present /\ ~Raised(ret)
    /\ \E k \in 1..Len(soil.layers) :
          LET owned == OwnedElements(pile, soil, k)
              Vi == pile_inside_volume(pile, soil)
              w == soil.layers[k].weight
              sw == ElementSoilWeights(pile, soil)
          IN  \E i, j \in owned :
                /\ Vi[i] > 0 /\ Vi[j] > 0
                /\ sw[i] = w * Vi[i]
                /\ sw[j] = (w - uw_water) * Vi[j]

\* per element, the outer and inner shaft resistance before the caller's flags
\* are applied
ElementShaftResistances(p, s) ==
    shaft_resistance_loop(s, soil_properties(p, s), pile_element_surface(p, s), 1,
                          [i \in 1..ElementCount(p) |-> [out |-> 0, in |-> 0]])

\* the elements owned by a layer of s that has an axial model
ElementsWithAxialModel(p, s) ==
    UNION { OwnedElements(p, s, k) :
              k \in { n \in 1..Len(s.layers) : s.layers[n].axial_model # "None" } }

\* C12: shaft_resistance zeroes what the caller's flags exclude: with both flags
\* False it returns 0; with both True it returns shaft_resistance(outer only) +
\* shaft_resistance(inner only); and the elements whose owning layer has no
\* axial model, or that lie in no soil layer, contribute 0.
C12_shaft_resistance_flags ==
    (call.fn = "shaft_resistance" /\ soil.present) =>
        LET fs == ElementShaftResistances(pile, soil)
            counted == ElementsWithAxialModel(pile, soil)
        IN  /\ ~Raised(ret)
            /\ (~call.outer_shaft /\ ~call.inner_shaft) => ret.num = 0
            /\ (call.outer_shaft /\ call.inner_shaft) =>
                   ret.num = Fs(TRUE, FALSE) + Fs(FALSE, TRUE)
            /\ \A i \in DOMAIN fs \ counted : fs[i] = [out |-> 0, in |-> 0]
            /\ ret.num = SumOver([i \in DOMAIN fs |->
                                    (IF call.outer_shaft THEN fs[i].out ELSE 0)
                                      + (IF call.inner_shaft THEN fs[i].in ELSE 0)],
                                 counted)

\* C12 happens: shaft_resistance has returned a sum of a non-zero outer and a
\* non-zero inner part for a pile with an element above the ground, an element
\* in a layer without axial model and an element in a layer with one
C12_Witness_both_flags ==
    /\ call.fn = "shaft_resistance" /\ soil.present
    /\ call.outer_shaft /\ call.inner_shaft
    /\ Fs(TRUE, FALSE) > 0 /\ Fs(FALSE, TRUE) > 0
    /\ ret.num = Fs(TRUE, FALSE) + Fs(FALSE, TRUE)
    /\ Pile_top_elevation(pile) > soil.top_elevation
    /\ \E k \in 1..Len(soil.layers) :
          /\ soil.layers[k].axial_model = "None"
          /\ OwnedElements(pile, soil, k) # {}

\* C13: isplugged and the capacity functions it calls have no side effects:
\* when isplugged("API-87", "compression") or isplugged("API-87", "tension")
\* returns, the pile (sections, material) and the soil profile (layers,
\* elevations, water line) are as they were before the call, and the returned
\* value is a boolean.
C13_isplugged_no_side_effects ==
    [][(/\ call'.fn = "isplugged" /\ call'.method = "API-87"
        /\ call'.kind \in {"compression", "tension"}
        /\ ~Raised(ret'))
       => /\ pile' = pile
          /\ soil' = soil
          /\ ret'.type = "bool"]_vars

\* C13 happens: isplugged("API-87", "compression") has returned True for a pile
\* of two sections in a profile whose layers are listed bottom-up
C13_Witness_returned ==
    /\ call.fn = "isplugged" /\ call.method = "API-87" /\ call.kind = "compression"
    /\ ret = ReturnBool(TRUE)
    /\ Len(pile.pile_sections) > 1
    /\ Len(soil.layers) > 1 /\ soil.layers[1].top < soil.layers[2].top

-----------------------------------------------------------------------------
(* Properties of the construction of a Model *)

\* the arrays create_springs has assembled in the last construction
Assembled == model.create_springs

\* the elements (array indices, from 0) owned by the k-th layer of s
OwnedSpringElements(p, s, k) == { r - 1 : r \in OwnedElements(p, s, k) }

\* C14: a Model can be built without a soil profile (soil=None): construction
\* completes, and afterwards embedment, get_py_springs, get_mt_springs,
\* get_Hb_spring and get_Mb_spring return None while the nodal force,
\* displacement and restraint tables are initialised to zero/False.
C14_model_without_soil ==
    (call.fn = "Model" /\ ~soil.present) =>
        /\ ~Raised(ret)
        /\ embedment(model.self, pile, soil) = None
        /\ get_py_springs(model.self, soil) = None
        /\ get_mt_springs(model.self, soil) = None
        /\ get_Hb_spring(model.self, soil) = None
        /\ get_Mb_spring(model.self, soil) = None
        /\ model.self.global_forces = nodal_table(pile, {"Px", "Py", "Mz"}, 0)
        /\ model.self.global_disp = nodal_table(pile, {"Tx", "Ty", "Rz"}, 0)
        /\ model.self.global_restrained = nodal_table(pile, {"Tx", "Ty", "Rz"}, FALSE)

\* C15: after a Model with a soil profile is built, all p-y and m-t entries of
\* every element whose owning layer has no lateral model are zero, and if the
\* layer containing the pile's bottom elevation has no lateral model the Hb and
\* Mb springs are all zero, whatever the four toggles are.
C15_no_lateral_model_zero ==
    (call.fn = "Model" /\ soil.present) =>
        /\ ~Raised(ret)
        /\ \A k \in 1..Len(soil.layers) :
              soil.layers[k].lateral_model = "None" =>
                  \A i \in OwnedSpringElements(pile, soil, k) :
                      /\ model.self.py_springs.data[i] = zeros(<<2, 2, spring_dim>>)
                      /\ model.self.mt_springs.data[i]
                            = zeros(Tail(model.self.mt_springs.shape))
        /\ (\E k \in TipLayers(pile, soil) : soil.layers[k].lateral_model = "None") =>
              /\ model.self.Hb_spring.data = zeros(Hb_shape)
              /\ model.self.Mb_spring.data = zeros(Mb_shape)

\* C16: when the toggle of a spring family is off (distributed_lateral,
\* distributed_moment, base_shear, base_moment), the curve function of that
\* family is never called during the Model build and the array of the family
\* is all-zero with the fixed length spring_dim, whether or not the lateral
\* models of the layers provide the family.
C16_toggle_off ==
    (call.fn = "Model" /\ soil.present) =>
        LET self == model.self
        IN  /\ ~self.fields.distributed_lateral =>
                  /\ Assembled.calls.py = 0
                  /\ ~Raised(ret)
                  /\ self.py_springs = np_zeros(self.py_springs.shape)
                  /\ self.py_springs.shape[Len(self.py_springs.shape)] = spring_dim
            /\ ~self.fields.distributed_moment =>
                  /\ Assembled.calls.mt = 0
                  /\ ~Raised(ret)
                  /\ self.mt_springs = np_zeros(self.mt_springs.shape)
                  /\ self.mt_springs.shape[Len(self.mt_springs.shape)] = spring_dim
            /\ ~self.fields.base_shear =>
                  /\ Assembled.calls.Hb = 0
                  /\ ~Raised(ret)
                  /\ self.Hb_spring = np_zeros(self.Hb_spring.shape)
                  /\ self.Hb_spring.shape[Len(self.Hb_spring.shape)] = spring_dim
            /\ ~self.fields.base_moment =>
                  /\ Assembled.calls.Mb = 0
                  /\ ~Raised(ret)
                  /\ self.Mb_spring = np_zeros(self.Mb_spring.shape)
                  /\ self.Mb_spring.shape[Len(self.Mb_spring.shape)] = spring_dim

\* C17: during one Model build with base_shear (resp. base_moment) enabled the
\* Hb (resp. Mb) curve function is evaluated once only, for every soil profile,
\* those included where the pile's bottom elevation is the boundary between
\* two layers that both have a lateral model providing the family.
C17_base_springs_once ==
    (call.fn = "Model" /\ soil.present) =>
        /\ model.self.fields.base_shear => Assembled.calls.Hb <= 1
        /\ model.self.fields.base_moment => Assembled.calls.Mb <= 1

\* C18: the spring arrays assembled for the solver have, per element, the shape
\* [2 ends][2 axes][spring_dim points] for the p-y and for the m-t family, and
\* Hb and Mb are each a single [2 axes][spring_dim points] array.
C18_spring_array_shapes ==
    (call.fn = "Model" /\ soil.present) =>
        /\ Assembled.py.shape = <<ElementCount(pile), 2, 2, spring_dim>>
        /\ Assembled.mt.shape = <<ElementCount(pile), 2, 2, spring_dim>>
        /\ Assembled.Hb.shape = <<1, 1, 2, spring_dim>>
        /\ Assembled.Mb.shape = <<1, 1, 2, spring_dim>>

\* the pair (block[0], block[1]) is the pair (values, abscissae) of a curve
ValueThenAbscissa(block) ==
    <<block[0], block[1]>> = curve(block[0][1], spring_dim)

\* C19: every stored spring follows the value-then-abscissa convention: of what
\* a curve function returns as (values, abscissae), axis index 0 of the p-y,
\* m-t, Hb and Mb arrays holds the values and axis index 1 the abscissae, the
\* order in which get_Hb_spring and get_Mb_spring label their rows.
C19_value_then_abscissa ==
    (call.fn = "Model" /\ soil.present) =>
        /\ \A i \in DOMAIN Assembled.py.data : \A j \in 0..1 :
              Assembled.py.data[i][j] # zeros(<<2, spring_dim>>) =>
                  ValueThenAbscissa(Assembled.py.data[i][j])
        /\ \A i \in DOMAIN Assembled.mt.data : \A j \in 0..1 :
              Assembled.mt.data[i][j] # zeros(Tail(Tail(Assembled.mt.shape))) =>
                  \A r \in 0..(spring_dim - 1) :
                      ValueThenAbscissa([a \in 0..1 |-> Assembled.mt.data[i][j][a][r]])
        /\ Assembled.calls.Hb > 0 => ValueThenAbscissa(Assembled.Hb.data[0][0])
        /\ Assembled.calls.Mb > 0 => ValueThenAbscissa(Assembled.Mb.data[0][0])

\* C20: get_Mb_spring returns the Mb spring computed for the model: for a Model
\* with a soil profile the two value rows of the returned table are the
\* contents of the model's Mb spring array, also when the Hb and the Mb spring
\* differ.
C20_get_Mb_spring ==
    (call.fn = "Model" /\ soil.present) =>
        /\ ~Raised(ret)
        /\ get_Mb_spring(model.self, soil)
              = Some(<<[type |-> "Mb", VAL |-> model.self.Mb_spring.data[0][0][0]],
                       [type |-> "t", VAL |-> model.self.Mb_spring.data[0][0][1]]>>)

\* (py < 0).any(): some p-y entry is negative
has_negative_py(py) ==
    \E i \in DOMAIN py.data : \E j \in 0..1 : \E a \in 0..1 :
        \E n \in 0..(spring_dim - 1) : py.data[i][j][a][n] < 0

\* C21: a generated spring curve with negative values does not abort the Model
\* build: construction completes and the Model keeps its spring arrays and
\* nodal tables.
C21_negative_curve_no_abort ==
    (call.fn = "Model" /\ soil.present /\ has_negative_py(Assembled.py)) =>
        /\ ~Raised(ret)
        /\ model.self.py_springs = Assembled.py
        /\ model.self.global_forces = nodal_table(pile, {"Px", "Py", "Mz"}, 0)

-----------------------------------------------------------------------------
(* Properties of the construction of a Pile *)

\* the tops of the sections descend
Descending(secs) ==
    \A i \in 1..Len(secs) : \A j \in i..Len(secs) :
        secs[i].top_elevation >= secs[j].top_elevation

\* the top of each section is the bottom of the one before
Contiguous(secs) ==
    \A i \in 2..Len(secs) : secs[i].top_elevation = secs[i - 1].bottom_elevation

\* C22: every successfully constructed Pile has its sections ordered by
\* descending top elevation, the top of each section being the bottom of the
\* section before, in whatever order the sections were supplied; sections that
\* are not contiguous in any descending order make the construction fail with
\* an error, and are not corrected.
C22_pile_sections_sorted ==
    call.fn = "Pile" =>
        LET supplied == call.args.pile_sections
        IN  /\ ~Raised(ret) =>
                  /\ pile.pile_sections \in Perms(supplied)
                  /\ Descending(pile.pile_sections)
                  /\ Contiguous(pile.pile_sections)
            /\ (~\E secs \in Perms(supplied) : Descending(secs) /\ Contiguous(secs)) =>
                  ret = Raise("ValueError")

\* a Pile of two sections supplied from the bottom up has been constructed
C22_Witness_sorted ==
    /\ call.fn = "Pile"
    /\ ~Raised(ret)
    /\ Len(pile.pile_sections) = 2
    /\ pile.pile_sections # call.args.pile_sections

\* C23: for any constructed pile of N sections Pile.data has exactly 2N rows,
\* the top and the bottom elevation of each section in section order, and its
\* elevation column never increases from the first row to the last.
C23_pile_data_rows ==
    (call.fn = "Pile" /\ ~Raised(ret)) =>
        LET data == Pile_data(pile)
            N == Len(pile.pile_sections)
        IN  /\ Len(data) = 2 * N
            /\ \A k \in 1..N :
                  /\ data[2 * k - 1].Elevation = pile.pile_sections[k].top_elevation
                  /\ data[2 * k].Elevation = pile.pile_sections[k].bottom_elevation
            /\ \A r \in 1..(2 * N - 1) : data[r].Elevation >= data[r + 1].Elevation

\* the table of a Pile of two sections, supplied from the bottom up
C23_Witness_four_rows ==
    /\ call.fn = "Pile"
    /\ ~Raised(ret)
    /\ Len(Pile_data(pile)) = 4
    /\ call.args.pile_sections[1].top_elevation < call.args.pile_sections[2].top_elevation

-----------------------------------------------------------------------------
(* Properties of the construction of a SoilProfile *)

\* the uppermost of the layers supplied
UppermostTop(layers) ==
    (CHOOSE k \in DOMAIN layers : \A j \in DOMAIN layers : layers[j].top <= layers[k].top)

\* C24: the construction of a SoilProfile applies the tolerance 0.001 to the top
\* check: a profile whose uppermost layer top differs from top_elevation by at
\* most 0.001 is accepted (its layers connecting), one that differs by more is
\* rejected with an error.
C24_top_tolerance ==
    (call.fn = "SoilProfile" /\ call.args.layers # <<>>) =>
        LET layers == call.args.layers
            top == layers[UppermostTop(layers)].top
            connect == \A k \in DOMAIN layers :
                          \/ k = UppermostTop(layers)
                          \/ \E j \in DOMAIN layers : Abs(layers[k].top - layers[j].bottom) < abs_tol
        IN  /\ (Abs(top - call.args.top_elevation) < abs_tol /\ connect) => ~Raised(ret)
            /\ Abs(top - call.args.top_elevation) > abs_tol => ret = Raise("ValueError")

\* the layers of the profile from the top down
TopDown(s) == sorted_layers(s.layers)

\* C25: for every successfully constructed SoilProfile, of any number of layers,
\* the layer spans cover [bottom_elevation, top_elevation] with no gap or
\* overlap greater than 0.001, bottom_elevation being top_elevation minus the
\* sum of the layer thicknesses; in particular the bottom of the lowest layer is
\* within 0.001 of bottom_elevation.
C25_layers_cover_profile ==
    (call.fn = "SoilProfile" /\ ~Raised(ret)) =>
        LET layers == TopDown(soil)
            n == Len(layers)
        IN  /\ Abs(layers[1].top - soil.top_elevation) <= abs_tol
            /\ \A i \in 1..(n - 1) : Abs(layers[i + 1].top - layers[i].bottom) <= abs_tol
            /\ Abs(layers[n].bottom - Soil_bottom_elevation(soil)) <= abs_tol

-----------------------------------------------------------------------------
(* Properties of the boundary conditions of a Model *)

\* elevations of a call on the Model of pile p: at, near and beside the nodes,
\* between the nodes and outside the mesh
CallElevations(p) ==
    { [x |-> x, off |-> off] :
        x \in (Pile_bottom_elevation(p) - 1)..(Pile_top_elevation(p) + 1),
        off \in {0, 3, 5, 200} }

\* the node a call at the elevation addresses: within 0.001 of it
Addressed(self, elevation) ==
    { n \in DOMAIN self.global_forces :
        self.global_forces[n].x = elevation.x /\ Abs(elevation.off) <= 4 }

\* a load, displacement or rotation argument
Values == {None, Some(0), Some(7), Some(-7)}

\* the calls of set_pointload, set_pointdisplacement (values) and of
\* set_support (booleans) on the Model of pile p
ValueCalls(p) ==
    [elevation : CallElevations(p), Tx : Values, Ty : {None, Some(7)}, Rz : {None}]

SupportCalls(p) ==
    [elevation : CallElevations(p), Tx : BOOLEAN, Ty : BOOLEAN, Rz : {FALSE}]

\* the force a component has after the calls c1 then c2 of set_pointload, for
\* the claim: that of the most recent call addressing the node with the
\* component given, else 0
LastLoad(self, n, c1, c2, column) ==
    IF n \in Addressed(self, c2.elevation) /\ ~c2[column].none THEN c2[column].value
    ELSE IF n \in Addressed(self, c1.elevation) /\ ~c1[column].none THEN c1[column].value
    ELSE 0

\* C26 on the Model object self: after the calls c1 then c2 of set_pointload
\* (Tx, Ty, Rz of a call standing for Px, Py, Mz)
set_pointload_last_call(self, p) ==
    \A c1 \in ValueCalls(p), c2 \in ValueCalls(p) :
        LET after1 == set_pointload(self, c1.elevation, c1.Ty, c1.Tx, c1.Rz)
            after2 == set_pointload(after1.self, c2.elevation, c2.Ty, c2.Tx, c2.Rz)
            forces == after2.self.global_forces
        IN  /\ after1.exc = "" /\ after2.exc = ""
            /\ \A n \in DOMAIN forces :
                  /\ forces[n].Px = LastLoad(self, n, c1, c2, "Tx")
                  /\ forces[n].Py = LastLoad(self, n, c1, c2, "Ty")
                  /\ forces[n].Mz = LastLoad(self, n, c1, c2, "Rz")

\* C26: after any sequence of set_pointload calls on a Model, each load
\* component (Px, Py, Mz) at a node is the value given by the most recent call
\* that addressed the node's elevation (within 0.001) with that component not
\* None, and 0 if there was no such call; a call never changes the loads at
\* other nodes.
C26_set_pointload_last_call ==
    call.fn = "Model" =>
        /\ ~Raised(ret)
        /\ set_pointload_last_call(model.self, pile)

\* C27 on the Model object self: after the calls c1 then c2 of set_support
set_support_last_call(self, p) ==
    \A c1 \in SupportCalls(p), c2 \in SupportCalls(p) :
        LET after1 == set_support(self, c1.elevation, c1.Ty, c1.Tx, c1.Rz)
            after2 == set_support(after1.self, c2.elevation, c2.Ty, c2.Tx, c2.Rz)
            restrained == after2.self.global_restrained
        IN  /\ after1.exc = "" /\ after2.exc = ""
            /\ \A n \in DOMAIN restrained :
                  LET last == IF n \in Addressed(self, c2.elevation) THEN c2
                              ELSE IF n \in Addressed(self, c1.elevation) THEN c1
                              ELSE [Tx |-> FALSE, Ty |-> FALSE, Rz |-> FALSE]
                  IN  /\ restrained[n].Tx = last.Tx
                      /\ restrained[n].Ty = last.Ty
                      /\ restrained[n].Rz = last.Rz

\* C27: after any sequence of set_support calls on a Model, the restraint flags
\* (Tx, Ty, Rz) at a node are the three arguments of the most recent
\* set_support call at the node's elevation, arguments left out counting as
\* False; the flags of an earlier call at that node do not persist.
C27_set_support_last_call ==
    call.fn = "Model" =>
        /\ ~Raised(ret)
        /\ set_support_last_call(model.self, pile)

\* C28 on the Model object self: after the call c1 of set_support and the call
\* c2 of set_pointdisplacement at the node of a matching elevation
set_pointdisplacement_restrains(self, p) ==
    \A c1 \in SupportCalls(p), c2 \in ValueCalls(p) :
        LET after1 == set_support(self, c1.elevation, c1.Ty, c1.Tx, c1.Rz)
            after2 == set_pointdisplacement(after1.self, c2.elevation, c2.Ty, c2.Tx, c2.Rz)
        IN  /\ after1.exc = "" /\ after2.exc = ""
            /\ \A n \in Addressed(self, c2.elevation) :
                  \A column \in {"Tx", "Ty", "Rz"} :
                      /\ ~c2[column].none =>
                            /\ after2.self.global_disp[n][column] = c2[column].value
                            /\ after2.self.global_restrained[n][column]
                      /\ after1.self.global_restrained[n][column] =>
                            after2.self.global_restrained[n][column]

\* C28: set_pointdisplacement at a node elevation stores each given (non-None)
\* displacement component in the displacement table and marks that degree of
\* freedom as restrained, for every given value, zero and negative values
\* included; a restraint set earlier by set_support on that degree of freedom
\* is never cleared by set_pointdisplacement.
C28_set_pointdisplacement_restrains ==
    call.fn = "Model" =>
        /\ ~Raised(ret)
        /\ set_pointdisplacement_restrains(model.self, pile)

\* the springs and property tables of a Model object
Immutable(self) ==
    <<self.fields, self.element_number, self.py_springs, self.mt_springs,
      self.Hb_spring, self.Mb_spring>>

\* C29 on the Model object self, for each of the three calls
unmatched_call_not_applied(self, p) ==
    /\ \A c \in ValueCalls(p) :
          LET load == set_pointload(self, c.elevation, c.Ty, c.Tx, c.Rz)
              disp == set_pointdisplacement(self, c.elevation, c.Ty, c.Tx, c.Rz)
          IN  /\ load.exc = "" /\ disp.exc = ""
              /\ Addressed(self, c.elevation) = {} => (load.self = self /\ disp.self = self)
              /\ load.self = [self EXCEPT !.global_forces = load.self.global_forces]
              /\ Immutable(disp.self) = Immutable(self)
              /\ disp.self.global_forces = self.global_forces
    /\ \A c \in SupportCalls(p) :
          LET support == set_support(self, c.elevation, c.Ty, c.Tx, c.Rz)
          IN  /\ support.exc = ""
              /\ Addressed(self, c.elevation) = {} => support.self = self
              /\ support.self
                    = [self EXCEPT !.global_restrained = support.self.global_restrained]

\* C29: a set_pointload, set_pointdisplacement or set_support call whose
\* elevation matches no mesh node within 0.001 (outside the mesh or between
\* nodes) is not applied: it raises no error and leaves the nodal force,
\* displacement and restraint tables as they were; a call that matches a node
\* changes only its own table(s), never the spring arrays or property tables.
C29_unmatched_call_not_applied ==
    call.fn = "Model" =>
        /\ ~Raised(ret)
        /\ unmatched_call_not_applied(model.self, pile)

-----------------------------------------------------------------------------
(* Outcomes of isplugged *)

\* C30: for every combination of method and kind, isplugged ends in one of two
\* outcomes only, for a pile in a soil profile: it returns a boolean, or it
\* raises the unsupported-method error; so it does for method "API-87" with a
\* kind other than "compression" and "tension".
C30_isplugged_two_outcomes ==
    (call.fn = "isplugged" /\ soil.present) =>
        \/ ret.type = "bool"
        \/ ret = Raise("Exception: Method not implemented")

====
